---- MODULE Spec2Model ----
(***************************************************************************)
(* Model of the NamespaceLabel reconciler: one NamespaceLabel object       *)
(* ("labels") in one namespace, the namespace object it labels, the        *)
(* reconciler's pass split at every API call, and the external writers     *)
(* (the user editing the object, third parties writing namespace labels).  *)
(***************************************************************************)
EXTENDS Integers, Sequences, FiniteSets, TLC

(***************************************************************************)
(* Bounds                                                                  *)
(***************************************************************************)
\* number of edits of the spec by the user
MaxEdits == 1
\* number of label writes by third parties
MaxLabelWrites == 1
\* number of API calls that may fail with a transient error
MaxFaults == 1

(***************************************************************************)
(* Label keys, values, patterns                                            *)
(***************************************************************************)
\* label keys are strings, modelled as sequences of characters
KeyEnv == <<"e">>
KeyK8s == <<"k", "/", "m">>
\* all keys of the model, in the byte order json.Marshal sorts map keys in
SortedKeys == <<KeyEnv, KeyK8s>>
Keys == {SortedKeys[i] : i \in 1..Len(SortedKeys)}
Vals == {"1", "2"}
PatK8s == <<"k", "/", "*">>
\* a malformed pattern
PatBad == <<"k", "/", "[">>
\* the pattern lists the user asks for
PatternLists == {<<PatK8s>>}
Modes == {"skip", "warn", "fail"}

EmptyMap == <<>>
\* all maps from a subset of Keys to Vals
LabelMaps == UNION {[S -> Vals] : S \in SUBSET Keys}

\* the label maps the user asks for
DesiredMaps == {m \in LabelMaps : KeyEnv \in DOMAIN m => m[KeyEnv] = "1"}
\* the NamespaceLabelSpec values the user may submit
Specs == [labels : DesiredMaps, patterns : PatternLists, mode : Modes,
          ignoreExisting : BOOLEAN]
ZeroSpec == [labels |-> EmptyMap, patterns |-> <<>>, mode |-> "", ignoreExisting |-> FALSE]

(***************************************************************************)
(* Pattern matcher                                                         *)
(***************************************************************************)
RECURSIVE GlobMatch(_, _)
\* filepath.Match for patterns of literals, '*' and '?': '*' and '?' do not
\* match the path separator
GlobMatch(p, s) ==
    IF p = <<>> THEN s = <<>>
    ELSE IF Head(p) = "*"
         THEN GlobMatch(Tail(p), s)
              \/ (s # <<>> /\ Head(s) # "/" /\ GlobMatch(p, Tail(s)))
    ELSE IF Head(p) = "?"
         THEN s # <<>> /\ Head(s) # "/" /\ GlobMatch(Tail(p), Tail(s))
    ELSE s # <<>> /\ Head(s) = Head(p) /\ GlobMatch(Tail(p), Tail(s))

\* a malformed pattern: '[' opens a character class that is never closed
BadPattern(pattern) == \E i \in 1..Len(pattern) : pattern[i] = "["

\* filepath.Match: (matched, err); a malformed pattern gives ErrBadPattern
\* and no match
Match(pattern, name) ==
    IF BadPattern(pattern) THEN [matched |-> FALSE, err |-> TRUE]
    ELSE [matched |-> GlobMatch(pattern, name), err |-> FALSE]

\* mutant: the loop ends at the first empty or malformed pattern
isLabelProtected_abortOnBad(labelKey, protectionPatterns) ==
    \E i \in 1..Len(protectionPatterns) :
        /\ \A j \in 1..i :
              protectionPatterns[j] # <<>> /\ ~Match(protectionPatterns[j], labelKey).err
        /\ Match(protectionPatterns[i], labelKey).matched

\* the loop over the patterns: an empty pattern is skipped, a pattern counts
\* when Match returns no error and matched
isLabelProtected(labelKey, protectionPatterns) ==
    \E i \in 1..Len(protectionPatterns) :
        /\ protectionPatterns[i] # <<>>
        /\ ~Match(protectionPatterns[i], labelKey).err
        /\ Match(protectionPatterns[i], labelKey).matched

(***************************************************************************)
(* Protection evaluator                                                    *)
(***************************************************************************)
EmptyResult ==
    [AllowedLabels |-> EmptyMap, ProtectedSkipped |-> <<>>,
     Warnings |-> <<>>, ShouldFail |-> FALSE]

\* mutant: the diagnostic message names the existing value twice
ConflictMsg_existingTwice(key, existingValue, value) == <<key, existingValue, existingValue>>

\* the diagnostic message: the key, its existing value, the attempted value
ConflictMsg(key, existingValue, value) == <<key, existingValue, value>>

\* mutant: a protected key that exists on the namespace, whatever its value
IsConflict_anyValue(key, desired, existing, protectionPatterns) ==
    /\ isLabelProtected(key, protectionPatterns)
    /\ key \in DOMAIN existing

\* a protected key that exists on the namespace with a different value
IsConflict(key, desired, existing, protectionPatterns) ==
    /\ isLabelProtected(key, protectionPatterns)
    /\ key \in DOMAIN existing
    /\ existing[key] # desired[key]

RECURSIVE ProtectionLoop(_, _, _, _, _, _)
\* the loop over desired, visiting its keys in the order `order`
ProtectionLoop(order, desired, existing, protectionPatterns, protectionMode, result) ==
    IF order = <<>> THEN result
    ELSE LET key == Head(order)
             value == desired[key]
         IN IF IsConflict(key, desired, existing, protectionPatterns)
            THEN LET msg == ConflictMsg(key, existing[key], value)
                 IN IF protectionMode = "fail"
                    THEN [result EXCEPT !.ShouldFail = TRUE,
                                        !.Warnings = Append(@, msg)]
                    ELSE IF protectionMode = "warn"
                    THEN ProtectionLoop(Tail(order), desired, existing,
                             protectionPatterns, protectionMode,
                             [result EXCEPT !.Warnings = Append(@, msg),
                                            !.ProtectedSkipped = Append(@, key)])
                    ELSE ProtectionLoop(Tail(order), desired, existing,
                             protectionPatterns, protectionMode,
                             [result EXCEPT !.ProtectedSkipped = Append(@, key)])
            ELSE ProtectionLoop(Tail(order), desired, existing,
                     protectionPatterns, protectionMode,
                     [result EXCEPT !.AllowedLabels = (key :> value) @@ @])

\* mutant: fail mode skips the conflicting key like skip mode and goes on
applyProtectionLogic_failAsSkip(desired, existing, protectionPatterns, protectionMode, order) ==
    ProtectionLoop(order, desired, existing, protectionPatterns,
                   IF protectionMode = "fail" THEN "skip" ELSE protectionMode,
                   EmptyResult)

\* `order` is the order in which Go's range visits the keys of desired
applyProtectionLogic(desired, existing, protectionPatterns, protectionMode, order) ==
    ProtectionLoop(order, desired, existing, protectionPatterns,
                   protectionMode, EmptyResult)

\* the orders in which a map's keys can be visited
Orders(m) ==
    {o \in [1..Cardinality(DOMAIN m) -> DOMAIN m] :
        \A i, j \in DOMAIN o : i # j => o[i] # o[j]}

(***************************************************************************)
(* Applied-state tracker: the annotation value and its JSON coding         *)
(***************************************************************************)
\* the annotation entry: absent, the empty string ("empty"), a JSON object
\* of strings ("json", the sequence of its key/value pairs), the JSON null,
\* text that is not JSON ("syntax"), or a JSON object with a member whose
\* value is not a string ("mixed", pairs are its other members)
AnnoAbsent == [kind |-> "absent", pairs |-> <<>>]

RECURSIVE MarshalFrom(_, _)
MarshalFrom(i, applied) ==
    IF i > Len(SortedKeys) THEN <<>>
    ELSE IF SortedKeys[i] \in DOMAIN applied
         THEN <<<<SortedKeys[i], applied[SortedKeys[i]]>>>> \o MarshalFrom(i + 1, applied)
         ELSE MarshalFrom(i + 1, applied)

\* mutant: an empty map is serialized like a nil map, as null
Marshal_nilAsNull(applied) ==
    IF applied = EmptyMap THEN [kind |-> "null", pairs |-> <<>>]
    ELSE [kind |-> "json", pairs |-> MarshalFrom(1, applied)]

\* json.Marshal of a map[string]string: the pairs, keys sorted
Marshal(applied) == [kind |-> "json", pairs |-> MarshalFrom(1, applied)]

RECURSIVE UnmarshalPairs(_)
\* json.Unmarshal into a map: a later pair of the same key wins
UnmarshalPairs(pairs) ==
    IF pairs = <<>> THEN EmptyMap
    ELSE LET last == pairs[Len(pairs)]
         IN (last[1] :> last[2]) @@ UnmarshalPairs(SubSeq(pairs, 1, Len(pairs) - 1))

\* an annotation that is absent or "" is not decoded; json.Unmarshal, whose
\* error is dropped, leaves the map empty on text that is not JSON and on
\* null; on a JSON object with members that are not strings (kind "mixed")
\* it stores the string members, which are the pairs kept here, and gives
\* the others the value "", which no label of the model carries
readAppliedAnnotation(nsObj) ==
    IF nsObj.anno.kind \in {"json", "mixed"}
    THEN UnmarshalPairs(nsObj.anno.pairs) ELSE EmptyMap

(***************************************************************************)
(* Label merge/diff engine                                                 *)
(***************************************************************************)
\* the keys removeStaleLabels deletes
StaleKeys(current, desired, prevApplied) ==
    {key \in DOMAIN prevApplied :
        /\ key \notin DOMAIN desired
        /\ key \in DOMAIN current
        /\ current[key] = prevApplied[key]}

\* mutant: a stale key is deleted whatever its current value
removeStaleLabels_anyValue(current, desired, prevApplied) ==
    [key \in DOMAIN current \ (DOMAIN prevApplied \ DOMAIN desired) |-> current[key]]

\* the label map after removeStaleLabels (changed iff it differs from current)
removeStaleLabels(current, desired, prevApplied) ==
    [key \in DOMAIN current \ StaleKeys(current, desired, prevApplied) |-> current[key]]

\* mutant: only the desired keys that are absent are set
applyDesiredLabels_absentOnly(current, desired) ==
    [key \in DOMAIN current \cup DOMAIN desired |->
        IF key \in DOMAIN current THEN current[key] ELSE desired[key]]

\* the label map after applyDesiredLabels: current[key] of an absent key is
\* "", so an absent key is set unless the desired value is ""
applyDesiredLabels(current, desired) ==
    LET cur(key) == IF key \in DOMAIN current THEN current[key] ELSE ""
        set == {key \in DOMAIN desired : cur(key) # desired[key]}
    IN [key \in DOMAIN current \cup set |->
            IF key \in set THEN desired[key] ELSE current[key]]

applyLabelsToNamespace(labels, desired, prevApplied) ==
    applyDesiredLabels(removeStaleLabels(labels, desired, prevApplied), desired)

\* the value removeStaleLabels returns
removeStaleLabelsChanged(current, desired, prevApplied) ==
    StaleKeys(current, desired, prevApplied) # {}

\* the value applyDesiredLabels returns: some desired value differs from
\* current[key], which is "" for an absent key
applyDesiredLabelsChanged(current, desired) ==
    \E key \in DOMAIN desired :
        (IF key \in DOMAIN current THEN current[key] ELSE "") # desired[key]

\* the value applyLabelsToNamespace returns
applyLabelsToNamespaceChanged(labels, desired, prevApplied) ==
    \/ removeStaleLabelsChanged(labels, desired, prevApplied)
    \/ applyDesiredLabelsChanged(removeStaleLabels(labels, desired, prevApplied), desired)

(***************************************************************************)
(* mergeDesiredLabels: the labels of many objects of one namespace         *)
(***************************************************************************)
\* names of NamespaceLabel objects, in ascending (lexicographic) order
SortedNames == <<"aa-first", "labels", "mm-mid", "zz-last">>
OwnerNames == {SortedNames[i] : i \in 1..Len(SortedNames)}

\* a < b on the names
NameLess(a, b) ==
    (CHOOSE i \in 1..Len(SortedNames) : SortedNames[i] = a)
        < (CHOOSE i \in 1..Len(SortedNames) : SortedNames[i] = b)

\* sort.Slice by Name, ascending, on objects with different names
sortByName(items) ==
    LET n == Len(items)
        pos(i) == 1 + Cardinality({j \in 1..n : NameLess(items[j].name, items[i].name)})
    IN [p \in 1..n |-> items[CHOOSE i \in 1..n : pos(i) = p]]

\* mutant: every key of the object is taken, whoever won it before
mergeItem_lastWins(item, acc) ==
    [desired |-> [k \in DOMAIN acc.desired \cup DOMAIN item.labels |->
                    IF k \in DOMAIN item.labels THEN item.labels[k] ELSE acc.desired[k]],
     perKeyWinner |-> [k \in DOMAIN acc.perKeyWinner \cup DOMAIN item.labels |->
                    IF k \in DOMAIN item.labels THEN item.name ELSE acc.perKeyWinner[k]]]

\* the inner loop over one object's labels: a key is taken when it has no
\* winner yet or the object's name is smaller than the winner's
mergeItem(item, acc) ==
    LET won == {k \in DOMAIN item.labels :
                   \/ k \notin DOMAIN acc.perKeyWinner
                   \/ NameLess(item.name, acc.perKeyWinner[k])}
    IN [desired |-> [k \in DOMAIN acc.desired \cup won |->
                        IF k \in won THEN item.labels[k] ELSE acc.desired[k]],
        perKeyWinner |-> [k \in DOMAIN acc.perKeyWinner \cup won |->
                        IF k \in won THEN item.name ELSE acc.perKeyWinner[k]]]

RECURSIVE mergeFrom(_, _, _)
\* the outer loop over the sorted objects, from the i-th on
mergeFrom(i, sorted, acc) ==
    IF i > Len(sorted) THEN acc
    ELSE mergeFrom(i + 1, sorted, mergeItem(sorted[i], acc))

\* the two maps mergeDesiredLabels returns
mergeDesiredLabels(items) ==
    mergeFrom(1, sortByName(items), [desired |-> EmptyMap, perKeyWinner |-> EmptyMap])

(***************************************************************************)
(* State                                                                   *)
(***************************************************************************)
VARIABLES
    cr,               \* the NamespaceLabel object "labels" in the API server
    ns,               \* the namespace object in the API server
    pc,               \* the API call the pass in flight performs next
    current,          \* Reconcile's copy of the NamespaceLabel object
    nsl,              \* the pass's copy of the namespace (ns in the code)
    prevApplied,      \* the ownership record the pass read
    protectionResult, \* the evaluator's result of the pass
    freshNS,          \* writeAppliedAnnotation's fresh copy
    admission,        \* the NamespaceLabel objects of the namespace and the
                      \* create and update requests at the admission webhook
    merged,           \* the argument and the results of mergeDesiredLabels
    ret,              \* what the pass returned (ctrl.Result and error)
    report,           \* the arguments of the pass's call of updateStatus
    edits,            \* spec edits still allowed
    writes,           \* third-party label writes still allowed
    faults,           \* transient API failures still allowed
    clean,            \* no external event and no API failure during the pass
    prevClean         \* the previous pass succeeded cleanly, nothing happened since

vars == <<cr, ns, pc, current, nsl, prevApplied, protectionResult, freshNS,
          ret, report, edits, writes, faults, clean, prevClean, admission, merged>>
budget == <<edits, writes>>

server == <<cr, ns>>
locals == <<current, nsl, prevApplied, protectionResult, freshNS>>

\* the name every NamespaceLabel object must have
StandardCRName == "labels"
\* the namespace of the request, which is the namespace of the object
ReqNamespace == "tenant"
\* the name of another namespace of the cluster
OtherNamespace == "other"

\* mutant: a label of the spec redirects the pass to another namespace
targetNS_fromSpec(reqNamespace, object) ==
    IF object.spec.labels # EmptyMap THEN OtherNamespace ELSE reqNamespace

\* the name of the namespace object an apply pass fetches
targetNS(reqNamespace, object) == reqNamespace

\* the zero NamespaceLabelStatus; a message is a sequence (the text's parts),
\* the empty message is <<>>; status.go never assigns Status.Message
NoStatus == [applied |-> FALSE, message |-> <<>>, protectedLabelsSkipped |-> <<>>,
             labelsApplied |-> <<>>, conditions |-> <<>>]
\* the object is absent
NoCR == [exists |-> FALSE, name |-> "", namespace |-> "",
         deleting |-> FALSE, finalizer |-> FALSE,
         generation |-> 0, spec |-> ZeroSpec, status |-> NoStatus]
\* the zero value of `current`; stale: the object's resourceVersion in the
\* API server is no longer the one of this copy
NoCurrent == [exists |-> FALSE, name |-> "", namespace |-> "",
              deleting |-> FALSE, finalizer |-> FALSE,
              generation |-> 0, spec |-> ZeroSpec, stale |-> FALSE]
\* a copy of a namespace object: name is the name it was fetched by (the
\* object its Update addresses), labels0 keeps the labels as fetched, labels
\* is the map the pass edits
NoNS == [name |-> "", labels0 |-> EmptyMap, labels |-> EmptyMap, anno |-> AnnoAbsent, stale |-> FALSE]
NoFresh == [name |-> "", labels |-> EmptyMap, anno |-> AnnoAbsent, stale |-> FALSE]
NoRet == [err |-> FALSE, requeue |-> 0, outcome |-> ""]
\* updateStatus has not been called
NoReport == [called |-> FALSE, ok |-> FALSE, reason |-> "", msg |-> <<>>,
             protectedSkipped |-> <<>>, labelsApplied |-> <<>>, generation |-> 0]

\* number of create and update requests sent to the API server
MaxRequests == 3
\* no request
NoRequest == [op |-> "none", name |-> "", state |-> "none", existingCount |-> 0]
\* no object in the namespace, no request sent
NoAdmission == [objects |-> {}, requests |-> [i \in 1..MaxRequests |-> NoRequest]]

\* mergeDesiredLabels has not been called
NoMerge == [called |-> FALSE, items |-> <<>>, desired |-> EmptyMap,
            perKeyWinner |-> EmptyMap]

\* the namespace object with nothing on it
NoNamespace == [exists |-> FALSE, labels |-> EmptyMap, anno |-> AnnoAbsent]

\* the user has created the object (ignoreExistingProtectedLabels at its
\* default, false); the namespace carries any labels and no
\* ownership annotation yet, or does not exist
Init ==
    /\ \E s \in Specs :
          /\ ~s.ignoreExisting
          /\ cr = [exists |-> TRUE, name |-> StandardCRName, namespace |-> ReqNamespace,
                   deleting |-> FALSE, finalizer |-> FALSE,
                   generation |-> 1, spec |-> s, status |-> NoStatus]
    /\ \/ \E l \in LabelMaps :
             ns = [exists |-> TRUE, labels |-> l, anno |-> AnnoAbsent]
       \/ ns = NoNamespace
    /\ pc = "idle"
    /\ current = NoCurrent
    /\ nsl = NoNS
    /\ prevApplied = EmptyMap
    /\ protectionResult = EmptyResult
    /\ freshNS = NoFresh
    /\ ret = NoRet
    /\ report = NoReport
    /\ edits = MaxEdits
    /\ writes = MaxLabelWrites
    /\ faults = MaxFaults
    /\ clean = FALSE
    /\ prevClean = FALSE
    /\ admission = NoAdmission
    /\ merged = NoMerge

(***************************************************************************)
(* External writers                                                        *)
(***************************************************************************)
\* An external write commutes with the pass's calls on the other object, so
\* it is taken between passes or right before a call of the pass on the
\* object it writes.
AtObjectCall == {"idle", "AddFinalizer", "FailStatus", "updateSuccessStatus",
                 "RemoveFinalizer"}
AtNamespaceCall == {"idle", "UpdateNamespace", "DeletionUpdate",
                    "writeAppliedAnnotation", "UpdateAnnotation"}

\* every external event ends the "nothing happened" runs
External ==
    /\ clean' = FALSE
    /\ prevClean' = FALSE
    /\ UNCHANGED <<pc, prevApplied, protectionResult, ret, report, faults, admission, merged>>

\* a write of the object by someone else outdates the pass's copy
TouchCR ==
    /\ current' = IF pc = "idle" THEN current
                  ELSE [current EXCEPT !.stale = TRUE]
    /\ UNCHANGED <<ns, nsl, freshNS>>

\* a write of the namespace by someone else outdates the pass's copies
TouchNS ==
    /\ nsl' = IF pc = "idle" THEN nsl ELSE [nsl EXCEPT !.stale = TRUE]
    /\ freshNS' = IF pc = "UpdateAnnotation"
                  THEN [freshNS EXCEPT !.stale = TRUE] ELSE freshNS
    /\ UNCHANGED <<cr, current>>

\* the user edits one field of the spec
EditSpec ==
    /\ External
    /\ pc \in AtObjectCall
    /\ edits > 0
    /\ edits' = edits - 1
    /\ cr.exists /\ ~cr.deleting
    /\ \E s \in Specs :
          /\ Cardinality({f \in DOMAIN s : s[f] # cr.spec[f]}) = 1
          /\ cr' = [cr EXCEPT !.spec = s, !.generation = @ + 1]
    /\ TouchCR
    /\ UNCHANGED writes

\* the user deletes the object: with a finalizer it is only marked, unless
\* the user strips the finalizer with the deletion
DeleteCR ==
    /\ External
    /\ pc \in AtObjectCall
    /\ cr.exists /\ ~cr.deleting
    /\ \/ cr' = IF cr.finalizer THEN [cr EXCEPT !.deleting = TRUE] ELSE NoCR
       \/ cr.finalizer /\ cr' = NoCR
    /\ TouchCR
    /\ UNCHANGED budget

\* a third party sets a namespace label
SetLabel ==
    /\ External
    /\ pc \in AtNamespaceCall
    /\ writes > 0
    /\ writes' = writes - 1
    /\ UNCHANGED edits
    /\ ns.exists
    /\ \E k \in Keys, v \in Vals :
          /\ ~(k \in DOMAIN ns.labels /\ ns.labels[k] = v)
          /\ ns' = [ns EXCEPT !.labels = (k :> v) @@ @]
    /\ TouchNS

\* a third party removes a namespace label
RemoveLabel ==
    /\ External
    /\ pc \in AtNamespaceCall
    /\ writes > 0
    /\ writes' = writes - 1
    /\ UNCHANGED edits
    /\ ns.exists
    /\ \E k \in DOMAIN ns.labels :
          ns' = [ns EXCEPT !.labels = [x \in DOMAIN ns.labels \ {k} |-> ns.labels[x]]]
    /\ TouchNS

(***************************************************************************)
(* The reconciliation pass, one action per API call                        *)
(***************************************************************************)
\* an API call fails with a transient error
Fault == faults > 0 /\ faults' = faults - 1 /\ clean' = FALSE
NoFault == UNCHANGED <<faults, clean>>

\* the pass returns
Finish(err, requeue, outcome) ==
    /\ pc' = "done"
    /\ ret' = [err |-> err, requeue |-> requeue, outcome |-> outcome]
    /\ prevClean' = (clean' /\ outcome = "synced")
    /\ UNCHANGED <<admission, merged>>

Continue(next) == pc' = next /\ UNCHANGED <<ret, prevClean, admission, merged>>

\* the dispatcher takes the returned result and the worker is free again
Return ==
    /\ pc = "done"
    /\ pc' = "idle"
    /\ current' = NoCurrent
    /\ nsl' = NoNS
    /\ prevApplied' = EmptyMap
    /\ protectionResult' = EmptyResult
    /\ freshNS' = NoFresh
    /\ ret' = NoRet
    /\ report' = NoReport
    /\ clean' = FALSE
    /\ UNCHANGED <<server, budget, faults, prevClean, admission, merged>>

\* mutant: the finalizer step is left out
Reconcile_Get_noFinalizerStep ==
    /\ pc = "idle"
    /\ UNCHANGED <<report, server, budget, nsl, prevApplied, protectionResult, freshNS>>
    /\ faults' = faults
    /\ clean' = TRUE
    /\ current' = [exists |-> cr.exists, name |-> cr.name,
                   namespace |-> cr.namespace, deleting |-> cr.deleting,
                   finalizer |-> cr.finalizer, generation |-> cr.generation,
                   spec |-> cr.spec, stale |-> FALSE]
    /\ Continue(IF cr.exists /\ cr.deleting THEN "handleDeletion"
                ELSE "getTargetNamespace")

\* Reconcile: fetch the object, then dispatch on deletion and finalizer
Reconcile_Get ==
    /\ pc = "idle"
    /\ UNCHANGED <<report, server, budget, nsl, prevApplied, protectionResult, freshNS>>
    /\ \/ /\ Fault
          /\ UNCHANGED current
          /\ Finish(TRUE, 0, "error")
       \/ /\ faults' = faults
          /\ clean' = TRUE
          /\ current' = [exists |-> cr.exists, name |-> cr.name,
                   namespace |-> cr.namespace, deleting |-> cr.deleting,
                         finalizer |-> cr.finalizer, generation |-> cr.generation,
                   spec |-> cr.spec, stale |-> FALSE]
          /\ Continue(IF cr.exists /\ cr.deleting THEN "handleDeletion"
                      ELSE IF cr.exists /\ ~cr.finalizer THEN "AddFinalizer"
                      ELSE "getTargetNamespace")

\* a conditional update of the object: the version must be the one read
UpdateCROk == cr.exists /\ ~current.stale

\* Reconcile: add the finalizer, persist it, stop
Reconcile_AddFinalizer ==
    /\ pc = "AddFinalizer"
    /\ UNCHANGED <<report, ns, budget, locals>>
    /\ \/ /\ Fault
          /\ UNCHANGED cr
          /\ Finish(TRUE, 0, "error")
       \/ /\ NoFault
          /\ IF UpdateCROk
             THEN /\ cr' = [cr EXCEPT !.finalizer = TRUE]
                  /\ Finish(FALSE, 0, "finalizer")
             ELSE /\ UNCHANGED cr
                  /\ Finish(TRUE, 0, "error")

\* Reconcile: fetch the namespace, read the record, evaluate, merge
Reconcile_GetNamespace ==
    /\ pc = "getTargetNamespace"
    /\ UNCHANGED <<report, server, budget, current, freshNS>>
    /\ \/ /\ Fault
          /\ UNCHANGED <<nsl, prevApplied, protectionResult>>
          /\ Finish(TRUE, 0, "error")
       \/ /\ NoFault
          /\ ~ns.exists
          /\ UNCHANGED <<nsl, prevApplied, protectionResult>>
          /\ Finish(TRUE, 0, "missing")
       \/ /\ NoFault
          /\ ns.exists
          /\ prevApplied' = readAppliedAnnotation(ns)
          /\ \E order \in Orders(current.spec.labels) :
                protectionResult' =
                    applyProtectionLogic(current.spec.labels, ns.labels,
                        current.spec.patterns, current.spec.mode, order)
          /\ IF protectionResult'.ShouldFail
             THEN /\ nsl' = [name |-> targetNS(ReqNamespace, current),
                             labels0 |-> ns.labels, labels |-> ns.labels,
                             anno |-> ns.anno, stale |-> FALSE]
                  /\ Continue("FailStatus")
             ELSE /\ nsl' = [name |-> targetNS(ReqNamespace, current),
                             labels0 |-> ns.labels,
                             labels |-> applyLabelsToNamespace(ns.labels,
                                          protectionResult'.AllowedLabels, prevApplied'),
                             anno |-> ns.anno, stale |-> FALSE]
                  /\ Continue(IF nsl'.labels # ns.labels
                              THEN "UpdateNamespace" ELSE "writeAppliedAnnotation")

\* the Ready condition updateStatus builds (LastTransitionTime left out)
ReadyCondition(generation, ok, reason, msg) ==
    [type |-> "Ready", status |-> IF ok THEN "True" ELSE "False",
     reason |-> reason, message |-> msg, observedGeneration |-> generation]

\* the index of the first condition of type Ready, 0 when there is none
FirstReady(conditions) ==
    IF \E i \in 1..Len(conditions) : conditions[i].type = "Ready"
    THEN CHOOSE i \in 1..Len(conditions) :
            /\ conditions[i].type = "Ready"
            /\ \A j \in 1..(i - 1) : conditions[j].type # "Ready"
    ELSE 0

\* mutant: the condition is appended without looking for an earlier one
updateStatus_alwaysAppend(status, generation, ok, reason, msg, protectedSkipped, labelsApplied) ==
    [status EXCEPT !.applied = ok,
                   !.protectedLabelsSkipped = protectedSkipped,
                   !.labelsApplied = labelsApplied,
                   !.conditions = Append(@, ReadyCondition(generation, ok, reason, msg))]

\* the status updateStatus leaves in an object of the given generation
updateStatus(status, generation, ok, reason, msg, protectedSkipped, labelsApplied) ==
    [status EXCEPT !.applied = ok,
                   !.protectedLabelsSkipped = protectedSkipped,
                   !.labelsApplied = labelsApplied,
                   !.conditions =
                       IF FirstReady(@) = 0
                       THEN Append(@, ReadyCondition(generation, ok, reason, msg))
                       ELSE [@ EXCEPT ![FirstReady(@)] =
                                ReadyCondition(generation, ok, reason, msg)]]

\* the arguments of a call of updateStatus on the pass's copy of the object
Report(ok, reason, msg, protectedSkipped, labelsApplied) ==
    [called |-> TRUE, ok |-> ok, reason |-> reason, msg |-> msg,
     protectedSkipped |-> protectedSkipped, labelsApplied |-> labelsApplied,
     generation |-> current.generation]

\* r.Status().Update with the status updateStatus built from the report r:
\* a conflict on the object's version leaves the object alone
StatusUpdate(r) ==
    IF UpdateCROk
    THEN [cr EXCEPT !.status = updateStatus(cr.status, r.generation, r.ok, r.reason,
                                  r.msg, r.protectedSkipped, r.labelsApplied)]
    ELSE cr

\* "Protected label conflicts: " followed by the warnings joined
ConflictStatusMsg(warnings) == <<"Protected label conflicts", warnings>>

\* mutant: the conflict is reported in the status only, the pass returns nil
Reconcile_FailStatus_noError ==
    /\ pc = "FailStatus"
    /\ UNCHANGED <<ns, budget, locals>>
    /\ report' = Report(FALSE, "ProtectedLabelConflict",
                        ConflictStatusMsg(protectionResult.Warnings),
                        protectionResult.ProtectedSkipped, <<>>)
    /\ \/ /\ Fault
          /\ UNCHANGED cr
       \/ /\ NoFault
          /\ cr' = StatusUpdate(report')
    /\ Finish(FALSE, 5, "conflict")

\* mutant: after the conflict status the pass goes on to the annotation write
Reconcile_FailStatus_thenRecord ==
    /\ pc = "FailStatus"
    /\ UNCHANGED <<ns, budget, locals>>
    /\ report' = Report(FALSE, "ProtectedLabelConflict",
                        ConflictStatusMsg(protectionResult.Warnings),
                        protectionResult.ProtectedSkipped, <<>>)
    /\ \/ /\ Fault
          /\ UNCHANGED cr
       \/ /\ NoFault
          /\ cr' = StatusUpdate(report')
    /\ Continue("writeAppliedAnnotation")

\* Reconcile: the evaluator failed; write the conflict status (a failed
\* status update is only logged), return the error
Reconcile_FailStatus ==
    /\ pc = "FailStatus"
    /\ UNCHANGED <<ns, budget, locals>>
    /\ report' = Report(FALSE, "ProtectedLabelConflict",
                        ConflictStatusMsg(protectionResult.Warnings),
                        protectionResult.ProtectedSkipped, <<>>)
    /\ \/ /\ Fault
          /\ UNCHANGED cr
       \/ /\ NoFault
          /\ cr' = StatusUpdate(report')
    /\ Finish(TRUE, 5, "conflict")

\* mutant: the update is unconditional, a stale copy overwrites the object
UpdateNSOk_always(copy) == ns.exists

\* a conditional update of the namespace: the version must be the one read
UpdateNSOk(copy) == ns.exists /\ ~copy.stale

\* mutant: the label update also stores the ownership record
Reconcile_UpdateNamespace_withRecord ==
    /\ pc = "UpdateNamespace"
    /\ UNCHANGED <<report, cr, budget, locals>>
    /\ \/ /\ Fault
          /\ UNCHANGED ns
          /\ Finish(TRUE, 0, "error")
       \/ /\ NoFault
          /\ IF UpdateNSOk(nsl)
             THEN /\ ns' = [ns EXCEPT !.labels = nsl.labels,
                                      !.anno = Marshal(protectionResult.AllowedLabels)]
                  /\ Continue("writeAppliedAnnotation")
             ELSE /\ UNCHANGED ns
                  /\ Finish(TRUE, 0, "error")

\* Reconcile: persist the merged labels
Reconcile_UpdateNamespace ==
    /\ pc = "UpdateNamespace"
    /\ UNCHANGED <<report, cr, budget, locals>>
    /\ \/ /\ Fault
          /\ UNCHANGED ns
          /\ Finish(TRUE, 0, "error")
       \/ /\ NoFault
          /\ IF UpdateNSOk(nsl)
             THEN /\ ns' = [ns EXCEPT !.labels = nsl.labels, !.anno = nsl.anno]
                  /\ Continue("writeAppliedAnnotation")
             ELSE /\ UNCHANGED ns
                  /\ Finish(TRUE, 0, "error")

\* the record the pass writes: the allowed set, or {} in a deletion pass
applied == IF current.deleting THEN EmptyMap ELSE protectionResult.AllowedLabels

\* what follows writeAppliedAnnotation returning nil
AfterAnnotationOk ==
    IF current.deleting THEN Continue("RemoveFinalizer")
    ELSE IF current.exists THEN Continue("updateSuccessStatus")
    ELSE Finish(FALSE, 0, "absent")

\* mutant: handleDeletion logs the error of writeAppliedAnnotation and goes
\* on, as Reconcile does
AfterAnnotationErr_goOn ==
    IF current.deleting THEN Continue("RemoveFinalizer")
    ELSE IF current.exists THEN Continue("updateSuccessStatus")
    ELSE Finish(FALSE, 0, "absent")

\* what follows writeAppliedAnnotation returning an error: Reconcile logs it
\* and goes on, handleDeletion asks for a retry in one minute
AfterAnnotationErr ==
    IF current.deleting THEN Finish(FALSE, 1, "retry")
    ELSE IF current.exists THEN Continue("updateSuccessStatus")
    ELSE Finish(FALSE, 0, "absent")

\* mutant: the record is written without comparing it with the annotation
writeAppliedAnnotation_Get_alwaysUpdate ==
    /\ pc = "writeAppliedAnnotation"
    /\ UNCHANGED <<report, server, budget, current, nsl, prevApplied, protectionResult>>
    /\ \/ /\ Fault
          /\ UNCHANGED freshNS
          /\ AfterAnnotationErr
       \/ /\ NoFault
          /\ ~ns.exists
          /\ UNCHANGED freshNS
          /\ AfterAnnotationErr
       \/ /\ NoFault
          /\ ns.exists
          /\ freshNS' = [name |-> nsl.name, labels |-> ns.labels, anno |-> ns.anno, stale |-> FALSE]
          /\ Continue("UpdateAnnotation")

\* writeAppliedAnnotation: fetch a fresh copy, compare the serialized record
writeAppliedAnnotation_Get ==
    /\ pc = "writeAppliedAnnotation"
    /\ UNCHANGED <<report, server, budget, current, nsl, prevApplied, protectionResult>>
    /\ \/ /\ Fault
          /\ UNCHANGED freshNS
          /\ AfterAnnotationErr
       \/ /\ NoFault
          /\ ~ns.exists
          /\ UNCHANGED freshNS
          /\ AfterAnnotationErr
       \/ /\ NoFault
          /\ ns.exists
          /\ freshNS' = [name |-> nsl.name, labels |-> ns.labels, anno |-> ns.anno, stale |-> FALSE]
          /\ IF ns.anno = Marshal(applied)
             THEN AfterAnnotationOk
             ELSE Continue("UpdateAnnotation")

\* mutant: the record is stored on the pass's own copy of the namespace,
\* whatever its version
writeAppliedAnnotation_Update_passCopy ==
    /\ pc = "UpdateAnnotation"
    /\ UNCHANGED <<report, cr, budget, locals>>
    /\ \/ /\ Fault
          /\ UNCHANGED ns
          /\ AfterAnnotationErr
       \/ /\ NoFault
          /\ IF ns.exists
             THEN /\ ns' = [ns EXCEPT !.labels = nsl.labels,
                                      !.anno = Marshal(applied)]
                  /\ AfterAnnotationOk
             ELSE /\ UNCHANGED ns
                  /\ AfterAnnotationErr

\* writeAppliedAnnotation: store the serialized record on the fresh copy
writeAppliedAnnotation_Update ==
    /\ pc = "UpdateAnnotation"
    /\ UNCHANGED <<report, cr, budget, locals>>
    /\ \/ /\ Fault
          /\ UNCHANGED ns
          /\ AfterAnnotationErr
       \/ /\ NoFault
          /\ IF UpdateNSOk(freshNS)
             THEN /\ ns' = [ns EXCEPT !.labels = freshNS.labels,
                                      !.anno = Marshal(applied)]
                  /\ AfterAnnotationOk
             ELSE /\ UNCHANGED ns
                  /\ AfterAnnotationErr

\* "Applied %d labels to namespace '%s'", with ", skipped %d protected
\* labels (%v)" when a key was skipped
SuccessMsg(actuallyDesired, skipped) ==
    IF Len(skipped) > 0
    THEN <<"Applied", ToString(Cardinality(DOMAIN actuallyDesired)),
           "skipped", ToString(Len(skipped)), skipped>>
    ELSE <<"Applied", ToString(Cardinality(DOMAIN actuallyDesired))>>

\* mutant: the keys of the spec's labels are reported as applied
updateSuccessStatus_desiredKeys ==
    /\ pc = "updateSuccessStatus"
    /\ UNCHANGED <<ns, budget, locals>>
    /\ \E appliedKeys \in Orders(current.spec.labels) :
          report' = Report(TRUE, "Synced",
                           SuccessMsg(protectionResult.AllowedLabels,
                                      protectionResult.ProtectedSkipped),
                           protectionResult.ProtectedSkipped, appliedKeys)
    /\ \/ /\ Fault
          /\ UNCHANGED cr
       \/ /\ NoFault
          /\ cr' = StatusUpdate(report')
    /\ Finish(FALSE, 0, "synced")

\* updateSuccessStatus: report Synced with the allowed keys in the order the
\* range over the map visits them; a failed status update is only logged
updateSuccessStatus ==
    /\ pc = "updateSuccessStatus"
    /\ UNCHANGED <<ns, budget, locals>>
    /\ \E appliedKeys \in Orders(protectionResult.AllowedLabels) :
          report' = Report(TRUE, "Synced",
                           SuccessMsg(protectionResult.AllowedLabels,
                                      protectionResult.ProtectedSkipped),
                           protectionResult.ProtectedSkipped, appliedKeys)
    /\ \/ /\ Fault
          /\ UNCHANGED cr
       \/ /\ NoFault
          /\ cr' = StatusUpdate(report')
    /\ Finish(FALSE, 0, "synced")

\* mutant: every key of the spec's labels is deleted
deletionLabels_all(labels, specLabels, prev) ==
    [k \in DOMAIN labels \ DOMAIN specLabels |-> labels[k]]

\* the label map handleDeletion's loop leaves: a key of the spec's labels is
\* deleted when the record lists it with the current value
deletionLabels(labels, specLabels, prev) ==
    [k \in DOMAIN labels \ {x \in DOMAIN specLabels :
                               /\ x \in DOMAIN prev
                               /\ x \in DOMAIN labels
                               /\ labels[x] = prev[x]} |-> labels[k]]

\* handleDeletion: fetch the namespace, compute the labels to delete
handleDeletion_GetNamespace ==
    /\ pc = "handleDeletion"
    /\ UNCHANGED <<report, server, budget, current, protectionResult, freshNS>>
    /\ \/ /\ Fault
          /\ UNCHANGED <<nsl, prevApplied>>
          /\ Finish(TRUE, 0, "error")
       \/ /\ NoFault
          /\ ~ns.exists
          /\ UNCHANGED <<nsl, prevApplied>>
          /\ Continue("RemoveFinalizer")
       \/ /\ NoFault
          /\ ns.exists
          /\ prevApplied' = readAppliedAnnotation(ns)
          /\ nsl' = [name |-> current.namespace, labels0 |-> ns.labels,
                     labels |-> deletionLabels(ns.labels, current.spec.labels, prevApplied'),
                     anno |-> ns.anno, stale |-> FALSE]
          /\ Continue(IF nsl'.labels # ns.labels
                      THEN "DeletionUpdate" ELSE "writeAppliedAnnotation")

\* handleDeletion: persist the namespace without the deleted labels
handleDeletion_UpdateNamespace ==
    /\ pc = "DeletionUpdate"
    /\ UNCHANGED <<report, cr, budget, locals>>
    /\ \/ /\ Fault
          /\ UNCHANGED ns
          /\ Finish(TRUE, 0, "error")
       \/ /\ NoFault
          /\ IF UpdateNSOk(nsl)
             THEN /\ ns' = [ns EXCEPT !.labels = nsl.labels, !.anno = nsl.anno]
                  /\ Continue("writeAppliedAnnotation")
             ELSE /\ UNCHANGED ns
                  /\ Finish(TRUE, 0, "error")

\* mutant: the finalizer is removed from the pass's copy only, the object is
\* not updated
handleDeletion_RemoveFinalizer_noUpdate ==
    /\ pc = "RemoveFinalizer"
    /\ UNCHANGED <<report, ns, budget, locals>>
    /\ NoFault
    /\ UNCHANGED cr
    /\ Finish(FALSE, 0, "deleted")

\* handleDeletion: remove the finalizer; the API server then drops the object
handleDeletion_RemoveFinalizer ==
    /\ pc = "RemoveFinalizer"
    /\ UNCHANGED <<report, ns, budget, locals>>
    /\ \/ /\ Fault
          /\ UNCHANGED cr
          /\ Finish(TRUE, 0, "error")
       \/ /\ NoFault
          /\ IF UpdateCROk
             THEN /\ cr' = NoCR
                  /\ Finish(FALSE, 0, "deleted")
             ELSE /\ UNCHANGED cr
                  /\ Finish(TRUE, 0, "error")

Next ==
    \/ EditSpec
    \/ DeleteCR
    \/ SetLabel
    \/ RemoveLabel
    \/ Reconcile_Get
    \/ Reconcile_AddFinalizer
    \/ Reconcile_GetNamespace
    \/ Reconcile_FailStatus
    \/ Reconcile_UpdateNamespace
    \/ writeAppliedAnnotation_Get
    \/ writeAppliedAnnotation_Update
    \/ updateSuccessStatus
    \/ handleDeletion_GetNamespace
    \/ handleDeletion_UpdateNamespace
    \/ handleDeletion_RemoveFinalizer
    \/ Return

Spec == Init /\ [][Next]_vars

TypeOK ==
    /\ pc \in {"idle", "done", "handleDeletion", "AddFinalizer", "getTargetNamespace",
               "FailStatus", "UpdateNamespace", "writeAppliedAnnotation",
               "UpdateAnnotation", "updateSuccessStatus", "DeletionUpdate",
               "RemoveFinalizer"}
    /\ ns.labels \in LabelMaps
    /\ edits \in 0..MaxEdits
    /\ writes \in 0..MaxLabelWrites
    /\ faults \in 0..MaxFaults

(***************************************************************************)
(* Properties                                                              *)
(***************************************************************************)
\* a step of the pass (every external step leaves pc alone)
PassStep == pc' # pc
\* a pass is in flight and has fetched the object
InPass == pc \notin {"idle", "done"}
\* the label of key k differs between two label maps
Differs(k, l1, l2) ==
    \/ (k \in DOMAIN l1) # (k \in DOMAIN l2)
    \/ k \in DOMAIN l1 /\ k \in DOMAIN l2 /\ l1[k] # l2[k]
\* the desired keys in protected conflict with the labels the pass fetched
Conflicts ==
    {key \in DOMAIN current.spec.labels :
        IsConflict(key, current.spec.labels, nsl.labels0, current.spec.patterns)}
\* an apply pass (not a deletion) for an existing object has returned
ApplyPassDone == pc = "done" /\ current.exists /\ ~current.deleting

\* C1: skip-mode protection. At the end of a skip-mode pass during which no
\* third party wrote the namespace, every desired key that matches a
\* protection pattern and had a different value on the namespace when the
\* pass fetched it still has that value on the namespace, and is not in the
\* allowed set; whatever the ownership record held.
C1_SkipModeProtection ==
    (ApplyPassDone /\ current.spec.mode = "skip" /\ ~nsl.stale) =>
        \A key \in Conflicts :
            /\ key \in DOMAIN ns.labels
            /\ ns.labels[key] = nsl.labels0[key]
            /\ key \notin DOMAIN protectionResult.AllowedLabels

\* C2: fail-mode protection. At the end of a fail-mode pass that found at
\* least one protected conflict, and during which no third party wrote the
\* namespace, the namespace's labels are the labels the pass fetched,
\* whichever order the desired keys were visited in.
C2_FailModeNoMutation ==
    (ApplyPassDone /\ current.spec.mode = "fail" /\ Conflicts # {} /\ ~nsl.stale) =>
        /\ ns.labels = nsl.labels0
        /\ ret.err

\* C2 witness: a fail-mode pass ended on a conflict while another desired
\* label was still missing from the namespace
C2_Witness ==
    /\ ApplyPassDone /\ current.spec.mode = "fail" /\ Conflicts # {} /\ ~nsl.stale
    /\ ret.outcome = "conflict"
    /\ \E key \in DOMAIN current.spec.labels : key \notin DOMAIN ns.labels

\* C3: safe removal. A step of a non-deleting pass deletes a key that is in
\* the ownership record the pass read and not in the allowed set only if the
\* namespace's value for it equals the recorded value; when the value
\* differs the step leaves the label as it is.
C3_SafeRemoval ==
    [][(PassStep /\ InPass /\ ~current.deleting) =>
          \A key \in DOMAIN prevApplied \ DOMAIN protectionResult.AllowedLabels :
              key \in DOMAIN ns.labels =>
                 \/ ns.labels[key] = prevApplied[key]
                 \/ key \in DOMAIN ns'.labels /\ ns'.labels[key] = ns.labels[key]]_vars

\* C3 witness: the pass has updated the namespace, deleting one stale key
\* whose value was the recorded one and leaving another stale key whose
\* value a third party had changed
C3_Witness ==
    /\ pc = "writeAppliedAnnotation" /\ ~current.deleting
    /\ \E gone, kept \in DOMAIN prevApplied \ DOMAIN protectionResult.AllowedLabels :
          /\ gone \in DOMAIN nsl.labels0 /\ gone \notin DOMAIN ns.labels
          /\ kept \in DOMAIN ns.labels /\ ns.labels[kept] # prevApplied[kept]

\* C4: ownership record equals allowed. At the end of every pass that
\* reports success (Synced), the ownership annotation on the namespace
\* decodes to the allowed map of that pass, also when the annotation write
\* failed.
C4_RecordEqualsAllowed ==
    (ApplyPassDone /\ ret.outcome = "synced") =>
        /\ ns.anno.kind = "json"
        /\ readAppliedAnnotation(ns) = protectionResult.AllowedLabels

\* C5: the record holds only labels the operator wrote. At the end of a
\* successful pass every pair of the record was in the record the pass read
\* (written in an earlier pass) or was written by this pass: a label that
\* the namespace already carried with the desired value, and that the prior
\* record did not list with it, is not recorded.
C5_RecordOnlyWritten ==
    (ApplyPassDone /\ ret.outcome = "synced" /\ ~nsl.stale) =>
        \A key \in DOMAIN readAppliedAnnotation(ns) :
            \/ /\ key \in DOMAIN prevApplied
               /\ prevApplied[key] = readAppliedAnnotation(ns)[key]
            \/ ~(/\ key \in DOMAIN nsl.labels0
                 /\ nsl.labels0[key] = readAppliedAnnotation(ns)[key])

\* C6: idempotence. After a pass for an object with its finalizer completed
\* (Synced, no failed call), with no external event since that pass began,
\* no step of the next pass changes the namespace (labels or annotations).
C6_Idempotence ==
    [][(PassStep /\ prevClean) => ns' = ns]_vars

\* C7: external labels are preserved. Every namespace label a step of a
\* pass adds, changes or removes has its key in the ownership record the
\* pass read or in the desired labels of the pass.
C7_ExternalLabelsPreserved ==
    [][PassStep =>
          \A key \in Keys :
              Differs(key, ns.labels, ns'.labels) =>
                  key \in DOMAIN prevApplied \cup DOMAIN current.spec.labels]_vars

\* C7 witness: a third party has written a label the pass neither owns nor
\* desires, the pass has updated the namespace, and the label is still there
C7_Witness ==
    /\ pc = "writeAppliedAnnotation"
    /\ writes < MaxLabelWrites
    /\ nsl.labels # nsl.labels0
    /\ ns.labels = nsl.labels
    /\ \E key \in DOMAIN ns.labels :
          key \notin DOMAIN prevApplied \cup DOMAIN current.spec.labels

\* C8 as stated: a pass that finds no object is a no-op. No step of a pass
\* whose Get returned not-found changes the namespace (labels, ownership
\* annotation) or the object's status.
C8_AbsentObjectNoop ==
    [][(PassStep /\ InPass /\ ~current.exists) => (ns' = ns /\ cr' = cr)]_vars

\* C8 amended: a pass that finds no object writes neither the object nor
\* its status and adds or changes no namespace label; a step of it deletes
\* a label only if the ownership record the pass read lists the key with the
\* label's current value, and changes the ownership annotation only by
\* setting it to {}.
C8_AbsentObjectCleanup ==
    [][(PassStep /\ InPass /\ ~current.exists) =>
          /\ cr' = cr
          /\ \A key \in Keys :
                Differs(key, ns.labels, ns'.labels) =>
                    /\ key \in DOMAIN prevApplied /\ key \in DOMAIN ns.labels
                    /\ ns.labels[key] = prevApplied[key]
                    /\ key \notin DOMAIN ns'.labels
          /\ ns'.anno # ns.anno => ns'.anno = [kind |-> "json", pairs |-> <<>>]]_vars

\* C8 witness: a pass that found no object has returned after deleting a
\* label the ownership record listed and writing {} as the record
C8_Witness ==
    /\ pc = "done" /\ ret.outcome = "absent" /\ ~current.exists
    /\ prevApplied # EmptyMap
    /\ nsl.labels # nsl.labels0 /\ ns.labels = nsl.labels
    /\ ns.anno = [kind |-> "json", pairs |-> <<>>]

C10_DeletionRollback ==
    [][(PassStep /\ InPass /\ current.deleting /\ ns.exists) =>
          /\ \A key \in Keys :
                Differs(key, ns.labels, ns'.labels) =>
                    /\ key \in DOMAIN prevApplied /\ key \in DOMAIN ns.labels
                    /\ ns.labels[key] = prevApplied[key]
                    /\ key \notin DOMAIN ns'.labels
          /\ (pc' = "done" /\ ret'.outcome = "deleted") =>
                /\ ~cr'.exists /\ ~cr'.finalizer
                /\ ns'.anno = Marshal(EmptyMap)
                /\ readAppliedAnnotation(ns') = EmptyMap]_vars

\* C10 witness: a deletion pass completed after deleting an owned label and
\* keeping a label of the spec that a third party had changed
C10_Witness ==
    /\ pc = "done" /\ ret.outcome = "deleted" /\ ns.exists /\ ~nsl.stale
    /\ nsl.labels # nsl.labels0
    /\ \E key \in DOMAIN current.spec.labels \cap DOMAIN prevApplied :
          key \in DOMAIN ns.labels /\ ns.labels[key] # prevApplied[key]

\* C11: deletion cleanup is complete. When a deletion pass on an existing
\* namespace has completed, no third party having written meanwhile, no key
\* of the ownership record the pass read is left on the namespace with its
\* recorded value, also when the key is no longer in the object's spec
\* labels.
C11_DeletionCleanupComplete ==
    (pc = "done" /\ ret.outcome = "deleted" /\ ns.exists /\ ~nsl.stale) =>
        \A key \in DOMAIN prevApplied :
            ~(key \in DOMAIN ns.labels /\ ns.labels[key] = prevApplied[key])

\* C12: the finalizer blocks deletion until cleanup is done. While a deletion
\* pass is in flight the object keeps its finalizer; when the pass has
\* removed it the namespace does not exist, or the ownership annotation is
\* {} and (no third party having written meanwhile) the namespace carries
\* the labels the pass computed; a pass that ended on a failed fetch, label
\* update or annotation write leaves the finalizer attached.
C12_FinalizerBlocksDeletion ==
    /\ (InPass /\ current.deleting) => (cr.exists /\ cr.finalizer /\ cr.deleting)
    /\ (pc = "done" /\ current.deleting) =>
          IF ret.outcome = "deleted"
          THEN /\ ~cr.exists
               /\ ns.exists =>
                     /\ ns.anno = [kind |-> "json", pairs |-> <<>>]
                     /\ ~nsl.stale => ns.labels = nsl.labels
          ELSE /\ ret.outcome \in {"error", "retry"}
               /\ cr.exists /\ cr.finalizer /\ cr.deleting

\* C12 witness: a deletion pass committed its label update, the annotation
\* write failed, and the pass ended asking for a retry with the finalizer
\* still attached
C12_Witness ==
    /\ pc = "done" /\ current.deleting /\ ret.outcome = "retry"
    /\ cr.exists /\ cr.finalizer
    /\ nsl.labels # nsl.labels0 /\ ns.labels = nsl.labels
    /\ ns.anno # [kind |-> "json", pairs |-> <<>>]

\* the conditions of type Ready in a status
ReadyConditions(status) ==
    SelectSeq(status.conditions, LAMBDA c : c.type = "Ready")

\* C13: missing namespace. A pass for an existing, non-deleting object with
\* its finalizer that finds the namespace missing reports Ready=False with
\* reason NamespaceNotFound (written to the object when nothing interferes),
\* returns no error and asks for a retry after one minute.
C13_NamespaceNotFound ==
    (ApplyPassDone /\ current.finalizer /\ ret.outcome = "missing") =>
        /\ ~ret.err
        /\ ret.requeue = 1
        /\ report.called /\ ~report.ok /\ report.reason = "NamespaceNotFound"
        /\ clean =>
              /\ Len(ReadyConditions(cr.status)) = 1
              /\ ReadyConditions(cr.status)[1].status = "False"
              /\ ReadyConditions(cr.status)[1].reason = "NamespaceNotFound"

\* C14: fail-mode outcome. A pass in which the evaluator returned shouldFail
\* reports applied=false, reason ProtectedLabelConflict and a message that
\* holds the accumulated warnings (at least one); it returns an error and
\* asks for a retry after five minutes; when nothing interferes with the
\* status update the object's status holds applied=false and one Ready
\* condition with status False, that reason and that message.
C14_FailModeOutcome ==
    (ApplyPassDone /\ protectionResult.ShouldFail) =>
        /\ ret.err
        /\ ret.requeue = 5
        /\ report.called /\ ~report.ok /\ report.reason = "ProtectedLabelConflict"
        /\ protectionResult.Warnings # <<>>
        /\ Len(report.msg) = 2 /\ report.msg[2] = protectionResult.Warnings
        /\ clean =>
              /\ cr.status.applied = FALSE
              /\ Len(ReadyConditions(cr.status)) = 1
              /\ ReadyConditions(cr.status)[1].status = "False"
              /\ ReadyConditions(cr.status)[1].reason = "ProtectedLabelConflict"
              /\ ReadyConditions(cr.status)[1].message = report.msg

\* C14 witness: a fail-mode pass ended on a conflict and its status update
\* went through, replacing the Synced condition of an earlier pass
C14_Witness ==
    /\ ApplyPassDone /\ protectionResult.ShouldFail /\ clean
    /\ ret.outcome = "conflict"
    /\ cr.status.labelsApplied = <<>>
    /\ cr.generation > 1
    /\ ReadyConditions(cr.status)[1].reason = "ProtectedLabelConflict"

\* an apply pass went on to the success report after its label update was
\* committed and its writeAppliedAnnotation returned an error: only the pass
\* writes the annotation, so the allowed set is not the stored record
AnnotationWriteFailed ==
    /\ ApplyPassDone /\ report.called
    /\ ~protectionResult.ShouldFail
    /\ nsl.labels # nsl.labels0
    /\ ~(ns.exists /\ ns.anno = Marshal(protectionResult.AllowedLabels))

\* C15: annotation write failure after the label update. When the label
\* update of an apply pass was committed and the following annotation write
\* failed, the labels are not rolled back, the pass reports Ready=False with
\* reason AnnotationError instead of success and asks for a retry after one
\* minute.
C15_AnnotationErrorReported ==
    AnnotationWriteFailed =>
        /\ ~report.ok
        /\ report.reason = "AnnotationError"
        /\ ret.requeue = 1

\* the elements of a sequence
Range(seq) == {seq[i] : i \in 1..Len(seq)}

\* C16: warn-mode protection. After an apply pass in warn mode that ran the
\* evaluator and whose namespace copy was current, every desired key in protected conflict still
\* has its value on the namespace, is not in the allowed set, is in the
\* skipped list and has a warning (as many warnings as skipped keys); the
\* other desired keys were evaluated and shouldFail is false.
C16_WarnModeProtection ==
    (ApplyPassDone /\ nsl # NoNS /\ current.spec.mode = "warn" /\ ~nsl.stale) =>
        /\ \A key \in Conflicts :
              /\ key \in DOMAIN ns.labels
              /\ ns.labels[key] = nsl.labels0[key]
              /\ key \notin DOMAIN protectionResult.AllowedLabels
              /\ key \in Range(protectionResult.ProtectedSkipped)
              /\ \E i \in 1..Len(protectionResult.Warnings) :
                    /\ protectionResult.Warnings[i] # <<>>
                    /\ protectionResult.Warnings[i][1] = key
        /\ Len(protectionResult.Warnings) = Len(protectionResult.ProtectedSkipped)
        /\ DOMAIN protectionResult.AllowedLabels = DOMAIN current.spec.labels \ Conflicts
        /\ ~protectionResult.ShouldFail

(***************************************************************************)
(* The protection evaluator on its own: any desired and existing maps, any *)
(* pattern list of up to MaxPatterns patterns, any mode value              *)
(***************************************************************************)
\* length of the pattern lists the evaluator is given
MaxPatterns == 2
\* the empty pattern, a wildcard for keys without separator, the pattern of
\* the protected prefix, a single-character pattern, a literal, a
\* malformed pattern
EvalPatterns == {<<>>, <<"*">>, PatK8s, <<"?">>, KeyK8s, PatBad}
EvalPatternLists == UNION {[1..n -> EvalPatterns] : n \in 0..MaxPatterns}
\* the three modes, the zero value and a value that is none of the three
EvalModes == Modes \cup {"", "other"}
EvalSpecs == [labels : LabelMaps, patterns : EvalPatternLists, mode : EvalModes,
              ignoreExisting : {FALSE}]

\* the arguments of one call: desired, patterns and mode in current.spec,
\* existing in ns.labels
InitEval ==
    /\ \E s \in EvalSpecs :
          current = [exists |-> TRUE, name |-> StandardCRName,
                     namespace |-> ReqNamespace, deleting |-> FALSE, finalizer |-> TRUE,
                     generation |-> 1, spec |-> s, stale |-> FALSE]
    /\ \E l \in LabelMaps :
          ns = [exists |-> TRUE, labels |-> l, anno |-> AnnoAbsent]
    /\ cr = NoCR
    /\ pc = "idle"
    /\ nsl = NoNS
    /\ prevApplied = EmptyMap
    /\ protectionResult = EmptyResult
    /\ freshNS = NoFresh
    /\ ret = NoRet
    /\ report = NoReport
    /\ edits = 0
    /\ writes = 0
    /\ faults = 0
    /\ clean = FALSE
    /\ prevClean = FALSE
    /\ admission = NoAdmission
    /\ merged = NoMerge

\* one call of applyProtectionLogic
Evaluate ==
    /\ pc = "idle"
    /\ pc' = "done"
    /\ \E order \in Orders(current.spec.labels) :
          protectionResult' =
              applyProtectionLogic(current.spec.labels, ns.labels,
                  current.spec.patterns, current.spec.mode, order)
    /\ UNCHANGED <<cr, ns, current, nsl, prevApplied, freshNS, ret, report,
                   edits, writes, faults, clean, prevClean, admission, merged>>

NextEval == Evaluate

SpecEval == InitEval /\ [][NextEval]_vars

\* C17: evaluator result in skip mode. For every desired map, existing map
\* and pattern list, a call with a mode other than warn and fail (skip, the
\* empty value, an unrecognised value) returns as allowed exactly the desired
\* pairs whose key matches no pattern, or is absent from existing, or has the
\* same value there; as skipped exactly the other desired keys, each once; no
\* warnings; shouldFail false.
C17_SkipModeResult ==
    (pc = "done" /\ current.spec.mode \notin {"warn", "fail"}) =>
        LET desired == current.spec.labels
            existing == ns.labels
            patterns == current.spec.patterns
            Free(key) ==
                \/ ~\E i \in 1..Len(patterns) : GlobMatch(patterns[i], key)
                \/ key \notin DOMAIN existing
                \/ existing[key] = desired[key]
            free == {key \in DOMAIN desired : Free(key)}
        IN /\ protectionResult.AllowedLabels = [key \in free |-> desired[key]]
           /\ Range(protectionResult.ProtectedSkipped) = DOMAIN desired \ free
           /\ Len(protectionResult.ProtectedSkipped) = Cardinality(DOMAIN desired \ free)
           /\ protectionResult.Warnings = <<>>
           /\ ~protectionResult.ShouldFail

\* C17 witness: a call with an unrecognised mode and two patterns allowed
\* one key and skipped the other
C17_Witness ==
    /\ pc = "done"
    /\ current.spec.mode = "other"
    /\ Len(current.spec.patterns) = MaxPatterns
    /\ protectionResult.AllowedLabels # EmptyMap
    /\ protectionResult.ProtectedSkipped # <<>>

\* C18: override of owned protected keys. After an apply pass that ran the
\* evaluator for a spec with ignoreExistingProtectedLabels true, every desired
\* key that matches a protection pattern and is in the ownership record the
\* pass read is in the allowed set with its desired value, whatever the mode
\* and the namespace's value; when the pass ended Synced with nothing
\* interfering, the namespace label has the desired value.
C18_OwnedProtectedOverride ==
    (ApplyPassDone /\ nsl # NoNS /\ current.spec.ignoreExisting) =>
        \A key \in DOMAIN current.spec.labels :
            (isLabelProtected(key, current.spec.patterns) /\ key \in DOMAIN prevApplied) =>
                /\ key \in DOMAIN protectionResult.AllowedLabels
                /\ protectionResult.AllowedLabels[key] = current.spec.labels[key]
                /\ (ret.outcome = "synced" /\ clean) =>
                      /\ key \in DOMAIN ns.labels
                      /\ ns.labels[key] = current.spec.labels[key]

(***************************************************************************)
(* updateStatus on its own: any sequence of reports on one object, whose   *)
(* generation grows up to MaxGeneration                                    *)
(***************************************************************************)
\* the highest generation of the object
MaxGeneration == 2
\* the reasons a report is made with
StatusReasons == {"Synced", "NamespaceNotFound", "ProtectedLabelConflict",
                  "AnnotationError", "InvalidName"}
\* two message texts
StatusMsgs == {<<"Applied", "1">>, <<"CR must be named 'labels'">>}
\* the key lists a report is made with
SkippedLists == {<<>>, <<KeyK8s>>}
AppliedLists == {<<>>, <<KeyEnv>>}

\* an object with the zero status and the reconciler's copy of it
InitStatus ==
    /\ cr = [exists |-> TRUE, name |-> StandardCRName, namespace |-> ReqNamespace,
             deleting |-> FALSE, finalizer |-> TRUE,
             generation |-> 1, spec |-> ZeroSpec, status |-> NoStatus]
    /\ current = [exists |-> TRUE, name |-> StandardCRName, namespace |-> ReqNamespace,
                  deleting |-> FALSE, finalizer |-> TRUE,
                  generation |-> 1, spec |-> ZeroSpec, stale |-> FALSE]
    /\ ns = NoNamespace
    /\ pc = "idle"
    /\ nsl = NoNS
    /\ prevApplied = EmptyMap
    /\ protectionResult = EmptyResult
    /\ freshNS = NoFresh
    /\ ret = NoRet
    /\ report = NoReport
    /\ edits = 0
    /\ writes = 0
    /\ faults = 0
    /\ clean = FALSE
    /\ prevClean = FALSE
    /\ admission = NoAdmission
    /\ merged = NoMerge

\* one call of updateStatus, stored with the status update
StatusReport ==
    /\ \E ok \in BOOLEAN, reason \in StatusReasons, msg \in StatusMsgs,
          protectedSkipped \in SkippedLists, labelsApplied \in AppliedLists :
          report' = Report(ok, reason, msg, protectedSkipped, labelsApplied)
    /\ cr' = StatusUpdate(report')
    /\ UNCHANGED <<ns, pc, locals, ret, budget, faults, clean, prevClean, admission, merged>>

\* the spec of the object changes and the reconciler reads it again
BumpGeneration ==
    /\ cr.generation < MaxGeneration
    /\ cr' = [cr EXCEPT !.generation = @ + 1]
    /\ current' = [current EXCEPT !.generation = @ + 1]
    /\ UNCHANGED <<ns, pc, nsl, prevApplied, protectionResult, freshNS, ret, report,
                   budget, faults, clean, prevClean, admission, merged>>

NextStatus ==
    \/ StatusReport
    \/ BumpGeneration

SpecStatus == InitStatus /\ [][NextStatus]_vars

\* C19: single Ready condition. Starting from an object without conditions,
\* after any sequence of reports the status holds exactly one condition, of
\* type Ready, and it is the one of the latest report: status True iff ok,
\* the report's reason and message, observedGeneration the object's
\* generation when the report was written.
C19_SingleReadyCondition ==
    report.called =>
        /\ Len(cr.status.conditions) = 1
        /\ Len(ReadyConditions(cr.status)) = 1
        /\ LET cond == ReadyConditions(cr.status)[1]
           IN /\ cond.status = (IF report.ok THEN "True" ELSE "False")
              /\ cond.reason = report.reason
              /\ cond.message = report.msg
              /\ cond.observedGeneration = report.generation
              /\ cond.observedGeneration <= cr.generation

\* C19 witness: a failure report written at a later generation is the one
\* Ready condition
C19_Witness ==
    /\ report.called /\ ~report.ok
    /\ report.reason = "AnnotationError"
    /\ report.generation = MaxGeneration
    /\ Len(cr.status.conditions) = 1
    /\ cr.status.conditions[1].reason = "AnnotationError"
    /\ cr.status.conditions[1].observedGeneration = MaxGeneration

\* C20: full snapshot. After a report the status holds the report's values:
\* applied is the ok flag, message the message passed, protectedLabelsSkipped
\* the skipped list passed, labelsApplied the applied list passed.
C20_FullSnapshot ==
    report.called =>
        /\ cr.status.applied = report.ok
        /\ cr.status.message = report.msg
        /\ cr.status.protectedLabelsSkipped = report.protectedSkipped
        /\ cr.status.labelsApplied = report.labelsApplied

\* C21: namespace isolation. Every copy of a namespace object a pass holds
\* (the one it fetched and updates, the fresh one the annotation write
\* fetched and updates) is the object named like the namespace of the
\* request, which is the namespace of the spec object, whatever the spec says.
C21_NamespaceIsolation ==
    /\ nsl # NoNS => nsl.name = ReqNamespace
    /\ freshNS # NoFresh => freshNS.name = ReqNamespace
    /\ current.exists => current.namespace = ReqNamespace

\* C21 witness: an apply pass with labels in its spec fetched the namespace,
\* updated it and fetched it again for the annotation
C21_Witness ==
    /\ ApplyPassDone /\ ret.outcome = "synced"
    /\ current.spec.labels # EmptyMap
    /\ nsl.labels # nsl.labels0
    /\ nsl.name = ReqNamespace
    /\ freshNS.name = ReqNamespace

(***************************************************************************)
(* The reconciler alone: any object and namespace the API server can hold, *)
(* passes run one after the other, nobody else writes                      *)
(***************************************************************************)
\* the names an object can have when the admission webhook is not in force
CRNames == {StandardCRName, "config"}
\* the specs, with and without protection patterns
PassSpecs == [labels : DesiredMaps, patterns : {<<>>, <<PatK8s>>}, mode : Modes,
              ignoreExisting : {FALSE}]
\* the values the ownership annotation can have
Annos ==
    {[kind |-> k, pairs |-> <<>>] : k \in {"absent", "empty", "null", "syntax"}}
    \cup {[kind |-> k, pairs |-> MarshalFrom(1, m)] : k \in {"json", "mixed"}, m \in LabelMaps}

\* an object that was just created, or has its finalizer, or is marked for
\* deletion with its finalizer; a namespace with any labels and annotation,
\* or none
InitPass ==
    /\ \E n \in CRNames, s \in PassSpecs, f \in BOOLEAN, d \in BOOLEAN :
          /\ d => f
          /\ cr = [exists |-> TRUE, name |-> n, namespace |-> ReqNamespace,
                   deleting |-> d, finalizer |-> f,
                   generation |-> 1, spec |-> s, status |-> NoStatus]
    /\ \/ \E l \in LabelMaps, a \in Annos :
             ns = [exists |-> TRUE, labels |-> l, anno |-> a]
       \/ ns = NoNamespace
    /\ pc = "idle"
    /\ current = NoCurrent
    /\ nsl = NoNS
    /\ prevApplied = EmptyMap
    /\ protectionResult = EmptyResult
    /\ freshNS = NoFresh
    /\ ret = NoRet
    /\ report = NoReport
    /\ edits = 0
    /\ writes = 0
    /\ faults \in {0, MaxFaults}
    /\ clean = FALSE
    /\ prevClean = FALSE
    /\ admission = NoAdmission
    /\ merged = NoMerge

NextPass ==
    \/ Reconcile_Get
    \/ Reconcile_AddFinalizer
    \/ Reconcile_GetNamespace
    \/ Reconcile_FailStatus
    \/ Reconcile_UpdateNamespace
    \/ writeAppliedAnnotation_Get
    \/ writeAppliedAnnotation_Update
    \/ updateSuccessStatus
    \/ handleDeletion_GetNamespace
    \/ handleDeletion_UpdateNamespace
    \/ handleDeletion_RemoveFinalizer
    \/ Return

\* the dispatcher keeps running passes
SpecPass == InitPass /\ [][NextPass]_vars /\ WF_vars(NextPass)

\* the namespace carries every label of the map with its value
Carries(labels, desired) ==
    \A key \in DOMAIN desired : key \in DOMAIN labels /\ labels[key] = desired[key]

\* C22: one Reconcile call on a new object. When a pass for an object named
\* 'labels' that had no finalizer and has no protection patterns, in an
\* existing namespace, has returned with no API call failing, it returned no
\* error, the namespace carries every label of the spec with its desired
\* value and the object has a Ready condition of status True.
C22_SingleCallApplies ==
    (/\ ApplyPassDone /\ clean
     /\ current.name = StandardCRName
     /\ ~current.finalizer
     /\ current.spec.patterns = <<>>
     /\ ns.exists) =>
        /\ ~ret.err
        /\ Carries(ns.labels, current.spec.labels)
        /\ \E i \in 1..Len(cr.status.conditions) :
              /\ cr.status.conditions[i].type = "Ready"
              /\ cr.status.conditions[i].status = "True"

\* C25: invalid name. When a pass for an existing object that is not named
\* 'labels' has returned, it reported applied=false with reason InvalidName,
\* returned no error and no requeue, did not attach the finalizer and did not
\* fetch or write the namespace; when no API call failed the object's status
\* has applied=false and one Ready condition, False with reason InvalidName.
C25_InvalidNameRejected ==
    (ApplyPassDone /\ current.name # StandardCRName) =>
        /\ report.called /\ ~report.ok /\ report.reason = "InvalidName"
        /\ ~ret.err /\ ret.requeue = 0
        /\ cr.finalizer = current.finalizer
        /\ nsl = NoNS /\ freshNS = NoFresh
        /\ clean =>
              /\ cr.status.applied = FALSE
              /\ Len(ReadyConditions(cr.status)) = 1
              /\ ReadyConditions(cr.status)[1].status = "False"
              /\ ReadyConditions(cr.status)[1].reason = "InvalidName"

\* the object 'labels' was created in an existing namespace, no desired key
\* is in protected conflict with the namespace's labels, no API call fails
ConvergenceStart ==
    /\ cr.exists /\ ~cr.deleting
    /\ cr.name = StandardCRName
    /\ ns.exists
    /\ faults = 0
    /\ \A key \in DOMAIN cr.spec.labels :
          ~IsConflict(key, cr.spec.labels, ns.labels, cr.spec.patterns)

\* the namespace carries the spec's labels, the ownership record is the
\* spec's labels, the finalizer is attached, Ready is True with reason Synced
Converged ==
    /\ cr.exists /\ cr.finalizer
    /\ ns.exists
    /\ Carries(ns.labels, cr.spec.labels)
    /\ ns.anno = Marshal(cr.spec.labels)
    /\ Len(ReadyConditions(cr.status)) = 1
    /\ ReadyConditions(cr.status)[1].status = "True"
    /\ ReadyConditions(cr.status)[1].reason = "Synced"

\* C23: convergence. From an object 'labels' created in an existing
\* namespace with no protection conflict and no failing API call, passes
\* that keep being run and nobody else writing lead to a state, kept from
\* then on, where the namespace carries every label of the spec, the
\* ownership record equals the spec's labels, the finalizer is attached
\* and the Ready condition is True with reason Synced.
C23_Convergence == ConvergenceStart => <>[]Converged

\* C23 witness: the converged state, reached from an object without
\* finalizer by a pass that changed labels and record
C23_Witness ==
    /\ Converged
    /\ ApplyPassDone /\ ret.outcome = "synced"
    /\ faults = 0
    /\ current.spec.labels # EmptyMap
    /\ nsl.labels # nsl.labels0
    /\ nsl.anno # ns.anno

\* the object carries the finalizer and is marked for deletion
DeletionStart == cr.exists /\ cr.deleting /\ cr.finalizer

\* a deletion pass that finds the namespace missing goes straight to the
\* removal of the finalizer, and that step, when its update does not fail,
\* frees the object; neither step fetched or wrote a namespace
MissingNamespaceStep ==
    /\ (pc = "handleDeletion" /\ ~ns.exists /\ faults' = faults) =>
            pc' = "RemoveFinalizer" /\ nsl' = NoNS /\ freshNS' = NoFresh
    /\ (pc = "RemoveFinalizer" /\ nsl = NoNS /\ faults' = faults /\ ~current.stale) =>
            ~cr'.exists /\ ns' = ns /\ ~ret'.err

\* C24: deletion completes. Once an object with the finalizer is marked for
\* deletion and deletion passes keep being run, API calls failing only a
\* bounded number of times, the finalizer is eventually removed and the
\* object gone; when the namespace does not exist, the first deletion pass
\* removes the finalizer after the failed fetch with no other namespace call.
C24_DeletionCompletes ==
    /\ DeletionStart => <>(~cr.exists)
    /\ [][MissingNamespaceStep]_vars

\* C24 witness: a deletion pass removed the finalizer after an earlier
\* deletion pass had failed, and the namespace lost a label in the cleanup
C24_Witness ==
    /\ pc = "done" /\ current.deleting
    /\ ~cr.exists
    /\ faults < MaxFaults
    /\ ns.exists
    /\ nsl.labels # nsl.labels0
    /\ ns.anno = Marshal(EmptyMap)

(***************************************************************************)
(* The validating webhook: create and update requests for NamespaceLabel   *)
(* objects of one namespace, validated and then stored by the API server,  *)
(* any number of them in flight at once                                    *)
(***************************************************************************)
reconciler == <<cr, ns, pc, current, nsl, prevApplied, protectionResult, freshNS,
                ret, report, edits, writes, faults, clean, prevClean, merged>>

\* mutant: any name is accepted
validateName_any(name) == TRUE

\* validateName: nil (TRUE) for the standard name
validateName(name) == name = StandardCRName

\* the objects validateSingleton counts: those listed in the namespace,
\* without the one being updated; oldName is "" for a create (oldNL nil)
ExistingCount(objects, oldName) ==
    Cardinality({n \in objects : ~(oldName # "" /\ n = oldName)})

\* validateSingleton: nil (TRUE) for an update that keeps the name, else
\* when no other object is listed
validateSingleton(objects, name, oldName) ==
    \/ oldName # "" /\ oldName = name
    \/ ExistingCount(objects, oldName) = 0

InitAdmit ==
    /\ admission = NoAdmission
    /\ merged = NoMerge
    /\ cr = NoCR
    /\ ns = [exists |-> TRUE, labels |-> EmptyMap, anno |-> AnnoAbsent]
    /\ pc = "idle"
    /\ current = NoCurrent
    /\ nsl = NoNS
    /\ prevApplied = EmptyMap
    /\ protectionResult = EmptyResult
    /\ freshNS = NoFresh
    /\ ret = NoRet
    /\ report = NoReport
    /\ edits = 0
    /\ writes = 0
    /\ faults = 0
    /\ clean = FALSE
    /\ prevClean = FALSE

\* a client sends a create request for an object of some name
SubmitCreate ==
    /\ \E i \in 1..MaxRequests, n \in CRNames :
          /\ admission.requests[i].state = "none"
          /\ admission' = [admission EXCEPT !.requests[i] =
                 [op |-> "create", name |-> n, state |-> "pending", existingCount |-> 0]]
    /\ UNCHANGED reconciler

\* a client sends an update request for an object of the namespace; an
\* update cannot change the name or the namespace of an object
SubmitUpdate ==
    /\ \E i \in 1..MaxRequests, n \in admission.objects :
          /\ admission.requests[i].state = "none"
          /\ admission' = [admission EXCEPT !.requests[i] =
                 [op |-> "update", name |-> n, state |-> "pending", existingCount |-> 0]]
    /\ UNCHANGED reconciler

\* ValidateCreate: the name, then the singleton check on the objects listed
\* now (the spec of the request is a valid one)
ValidateCreate ==
    /\ \E i \in 1..MaxRequests :
          LET r == admission.requests[i]
          IN /\ r.op = "create" /\ r.state = "pending"
             /\ admission' = [admission EXCEPT !.requests[i] =
                    [r EXCEPT !.existingCount = ExistingCount(admission.objects, ""),
                              !.state = IF /\ validateName(r.name)
                                           /\ validateSingleton(admission.objects, r.name, "")
                                        THEN "admitted" ELSE "rejected"]]
    /\ UNCHANGED reconciler

\* ValidateUpdate: the name, then the singleton check with the old object
ValidateUpdate ==
    /\ \E i \in 1..MaxRequests :
          LET r == admission.requests[i]
          IN /\ r.op = "update" /\ r.state = "pending"
             /\ admission' = [admission EXCEPT !.requests[i] =
                    [r EXCEPT !.existingCount = ExistingCount(admission.objects, r.name),
                              !.state = IF /\ validateName(r.name)
                                           /\ validateSingleton(admission.objects, r.name, r.name)
                                        THEN "admitted" ELSE "rejected"]]
    /\ UNCHANGED reconciler

\* the API server stores an admitted request: a create of a name that is
\* taken fails (AlreadyExists), an update of an object that is gone fails
Store ==
    /\ \E i \in 1..MaxRequests :
          LET r == admission.requests[i]
              ok == IF r.op = "create" THEN r.name \notin admission.objects
                    ELSE r.name \in admission.objects
          IN /\ r.state = "admitted"
             /\ admission' = [admission EXCEPT
                    !.requests[i] = [r EXCEPT !.state = IF ok THEN "stored" ELSE "failed"],
                    !.objects = IF ok THEN @ \cup {r.name} ELSE @]
    /\ UNCHANGED reconciler

\* an object is deleted (ValidateDelete accepts every deletion)
DeleteObject ==
    /\ \E n \in admission.objects :
          admission' = [admission EXCEPT !.objects = @ \ {n}]
    /\ UNCHANGED reconciler

NextAdmit ==
    \/ SubmitCreate
    \/ SubmitUpdate
    \/ ValidateCreate
    \/ ValidateUpdate
    \/ Store
    \/ DeleteObject

SpecAdmit == InitAdmit /\ [][NextAdmit]_vars

\* C26: singleton admission. Whatever requests are sent and however their
\* validation and storage interleave, the namespace holds at most one
\* NamespaceLabel object and it is named 'labels'; a validated create request
\* was rejected exactly when its name is not 'labels' or an object was
\* listed in the namespace at validation time; a validated update request,
\* which keeps name and namespace, was rejected only for its name.
C26_SingletonAdmission ==
    /\ Cardinality(admission.objects) <= 1
    /\ admission.objects \subseteq {StandardCRName}
    /\ \A i \in 1..MaxRequests :
          LET r == admission.requests[i]
          IN r.state \in {"admitted", "rejected", "stored", "failed"} =>
                /\ r.op = "create" =>
                      (r.state = "rejected" <=>
                          (r.name # StandardCRName \/ r.existingCount > 0))
                /\ r.op = "update" =>
                      (r.state = "rejected" => r.name # StandardCRName)

\* C26 witness: two create requests for 'labels' were both admitted before
\* either was stored; the API server stored one and refused the other
C26_Witness ==
    /\ admission.objects = {StandardCRName}
    /\ \E i, j \in 1..MaxRequests :
          /\ admission.requests[i].op = "create"
          /\ admission.requests[i].state = "stored"
          /\ admission.requests[j].op = "create"
          /\ admission.requests[j].state = "failed"
          /\ admission.requests[j].existingCount = 0

\* C27: success status content. After a pass that ended Synced, the applied
\* list of the report is the key set of the allowed map, each key once, the
\* skipped list is the evaluator's, the two are disjoint and together they
\* are the keys of the spec's labels; when nothing interfered the object's
\* status holds both lists and the ownership record has the applied keys.
C27_SuccessStatusContent ==
    (ApplyPassDone /\ ret.outcome = "synced") =>
        /\ report.called /\ report.ok
        /\ Range(report.labelsApplied) = DOMAIN protectionResult.AllowedLabels
        /\ Len(report.labelsApplied) = Cardinality(DOMAIN protectionResult.AllowedLabels)
        /\ report.protectedSkipped = protectionResult.ProtectedSkipped
        /\ Range(report.labelsApplied) \cap Range(report.protectedSkipped) = {}
        /\ Range(report.labelsApplied) \cup Range(report.protectedSkipped)
              = DOMAIN current.spec.labels
        /\ clean =>
              /\ cr.status.labelsApplied = report.labelsApplied
              /\ cr.status.protectedLabelsSkipped = report.protectedSkipped
              /\ DOMAIN readAppliedAnnotation(ns) = Range(cr.status.labelsApplied)

\* C27 witness: a pass ended Synced with one key applied and one skipped,
\* both in the object's status
C27_Witness ==
    /\ ApplyPassDone /\ ret.outcome = "synced" /\ clean
    /\ cr.status.labelsApplied = <<KeyEnv>>
    /\ cr.status.protectedLabelsSkipped = <<KeyK8s>>

\* the place of the first key in protected conflict in a visiting order
FirstConflict(order, desired, existing, protectionPatterns) ==
    CHOOSE i \in 1..Len(order) :
        /\ IsConflict(order[i], desired, existing, protectionPatterns)
        /\ \A j \in 1..(i - 1) :
              ~IsConflict(order[j], desired, existing, protectionPatterns)

\* C28: fail mode stops at the first conflict. A result with shouldFail is
\* the one of some visiting order of the desired keys: it has exactly one
\* warning, naming the first conflicting key of that order, its existing
\* value and the attempted value; allowed holds exactly the keys visited
\* before it, with their desired values; the conflicting key and the keys
\* after it are neither allowed nor skipped.
C28_FailStopsAtFirstConflict ==
    (pc = "done" /\ protectionResult.ShouldFail) =>
        LET desired == current.spec.labels
            existing == ns.labels
            patterns == current.spec.patterns
        IN /\ current.spec.mode = "fail"
           /\ \E order \in Orders(desired) :
                 LET i == FirstConflict(order, desired, existing, patterns)
                     before == {order[j] : j \in 1..(i - 1)}
                 IN /\ \E j \in 1..Len(order) :
                          IsConflict(order[j], desired, existing, patterns)
                    /\ protectionResult.Warnings =
                          <<<<order[i], existing[order[i]], desired[order[i]]>>>>
                    /\ protectionResult.AllowedLabels = [key \in before |-> desired[key]]
                    /\ protectionResult.ProtectedSkipped = <<>>

\* C28 witness: a fail-mode call allowed one key and then stopped at a
\* conflict; another order of the same input stops at once
C28_Witness ==
    /\ pc = "done" /\ protectionResult.ShouldFail
    /\ Cardinality(DOMAIN current.spec.labels) = 2
    /\ Cardinality(DOMAIN protectionResult.AllowedLabels) = 1

(***************************************************************************)
(* The merge/diff engine on its own: any target labels, allowed map and    *)
(* ownership record, label values including the empty string               *)
(***************************************************************************)
\* label values: the empty string is a valid label value
MergeVals == Vals \cup {""}
MergeMaps == UNION {[S -> MergeVals] : S \in SUBSET Keys}

\* the arguments of one call: the target's labels in ns.labels, the allowed
\* map in protectionResult.AllowedLabels, the record in prevApplied
InitMerge ==
    /\ \E l \in MergeMaps :
          ns = [exists |-> TRUE, labels |-> l, anno |-> AnnoAbsent]
    /\ \E a \in MergeMaps :
          protectionResult = [EmptyResult EXCEPT !.AllowedLabels = a]
    /\ prevApplied \in MergeMaps
    /\ cr = NoCR
    /\ pc = "idle"
    /\ current = NoCurrent
    /\ nsl = NoNS
    /\ freshNS = NoFresh
    /\ ret = NoRet
    /\ report = NoReport
    /\ edits = 0
    /\ writes = 0
    /\ faults = 0
    /\ clean = FALSE
    /\ prevClean = FALSE
    /\ admission = NoAdmission
    /\ merged = NoMerge

\* one call of applyLabelsToNamespace on a copy of the target
MergeApply ==
    /\ pc = "idle"
    /\ pc' = "done"
    /\ nsl' = [name |-> ReqNamespace, labels0 |-> ns.labels,
               labels |-> applyLabelsToNamespace(ns.labels,
                              protectionResult.AllowedLabels, prevApplied),
               anno |-> ns.anno, stale |-> FALSE]
    /\ UNCHANGED <<cr, ns, current, prevApplied, protectionResult, freshNS, ret, report,
                   edits, writes, faults, clean, prevClean, admission, merged>>

NextMerge == MergeApply

SpecMerge == InitMerge /\ [][NextMerge]_vars

\* C29: merge/diff upsert. After a call the target's labels hold every pair
\* of the allowed map, also a pair whose value is the empty string, and the
\* returned flag is true exactly when the labels differ from those before
\* the call.
C29_MergeUpsert ==
    pc = "done" =>
        /\ Carries(nsl.labels, protectionResult.AllowedLabels)
        /\ applyLabelsToNamespaceChanged(nsl.labels0, protectionResult.AllowedLabels,
                                         prevApplied)
              <=> (nsl.labels # nsl.labels0)

\* C30: unreadable ownership annotation. When the annotation the pass read
\* is absent, empty or not parsable as a JSON map of strings, the ownership
\* record of the pass is the empty map and the pass deletes no label of
\* the namespace.
C30_UnreadableAnnotationSafe ==
    (nsl # NoNS /\ nsl.anno.kind # "json") =>
        /\ prevApplied = EmptyMap
        /\ DOMAIN nsl.labels0 \subseteq DOMAIN nsl.labels

(***************************************************************************)
(* The annotation write, the order of the steps, concurrent writers        *)
(***************************************************************************)
\* C31: the annotation write is a no-op when unchanged. A call of
\* writeAppliedAnnotation whose fetch fails updates nothing; after a fetch
\* that succeeds it issues no update when the fetched annotation equals the
\* serialized record and one update otherwise, also when the annotation is
\* absent and the record is the empty map. The one update writes the
\* serialized record or fails and leaves the namespace as it is; a failed
\* fetch or update comes back as an error, which the deletion path shows as
\* a retry.
C31_AnnotationWriteNoop ==
    [][PassStep =>
          /\ pc = "writeAppliedAnnotation" =>
                IF freshNS' # freshNS
                THEN /\ ns' = ns
                     /\ (pc' = "UpdateAnnotation") <=> (freshNS'.anno # Marshal(applied))
                     /\ freshNS'.anno = Marshal(applied) => ~ret'.err /\ ret'.requeue = 0
                ELSE /\ ns' = ns
                     /\ pc' # "UpdateAnnotation"
                     /\ current.deleting => ret'.outcome = "retry"
          /\ pc = "UpdateAnnotation" =>
                /\ pc' \notin {"writeAppliedAnnotation", "UpdateAnnotation"}
                /\ \/ ns' = [ns EXCEPT !.anno = Marshal(applied)] /\ ns' # ns
                   \/ ns' = ns /\ (current.deleting => ret'.outcome = "retry")]_vars

\* C31 witness: the pass fetched a namespace without the annotation, its
\* record is the empty map, and its one update has stored the record
C31_Witness ==
    /\ pc \in {"updateSuccessStatus", "RemoveFinalizer"}
    /\ freshNS # NoFresh
    /\ freshNS.anno = AnnoAbsent
    /\ applied = EmptyMap
    /\ ns.anno = Marshal(EmptyMap)

\* C32: the annotation write does not clobber concurrent writes. No step of
\* writeAppliedAnnotation changes a label of the namespace: the labels a
\* third party wrote after the pass's label update are on the namespace,
\* with the third party's values, after the annotation write.
C32_AnnotationWriteKeepsLabels ==
    [][(PassStep /\ pc \in {"writeAppliedAnnotation", "UpdateAnnotation"}) =>
          ns'.labels = ns.labels]_vars

\* C32 witness: the pass updated the labels, a third party then changed
\* them, and the annotation write has stored the record next to the third
\* party's labels
C32_Witness ==
    /\ pc = "updateSuccessStatus"
    /\ nsl.labels # nsl.labels0
    /\ nsl.stale
    /\ ns.labels # nsl.labels
    /\ freshNS.labels = ns.labels
    /\ ns.anno = Marshal(applied)
    /\ ns.anno # nsl.anno

\* C33: the ownership record matches the namespace when written. Whenever a
\* step of a pass writes the ownership annotation, every pair of the record
\* then stored is a label of the namespace with the same value, also when
\* a third party changed or removed such a label after the pass's label
\* update.
C33_RecordMatchesNamespace ==
    [][(PassStep /\ ns'.anno # ns.anno) =>
          Carries(ns'.labels, readAppliedAnnotation(ns'))]_vars

\* the place of a call in the text of Reconcile and handleDeletion: the
\* fetches and the finalizer update, the label update, the fetch of the
\* annotation write, its update, the status write or finalizer removal,
\* the return
StepRank(p) ==
    CASE p = "idle" -> 0
      [] p \in {"AddFinalizer", "handleDeletion", "getTargetNamespace"} -> 1
      [] p \in {"UpdateNamespace", "DeletionUpdate"} -> 2
      [] p = "writeAppliedAnnotation" -> 3
      [] p = "UpdateAnnotation" -> 4
      [] p \in {"FailStatus", "updateSuccessStatus", "RemoveFinalizer"} -> 5
      [] p = "done" -> 6

\* C34: step order within one pass. Every step of a pass moves forward in
\* the order finalizer update, evaluation and merge, label update,
\* annotation write, status write; each kind of write happens only at its
\* own step; the namespace is changed for an existing object only when the
\* pass read the object with its finalizer; the labels the pass writes are
\* merged from the allowed map the evaluation produced.
C34_StepOrder ==
    [][PassStep =>
          /\ pc # "done" => StepRank(pc') > StepRank(pc)
          /\ (cr'.exists /\ cr'.finalizer # cr.finalizer) => pc = "AddFinalizer"
          /\ ~cr'.exists => cr = cr' \/ pc = "RemoveFinalizer"
          /\ ns'.labels # ns.labels =>
                /\ pc \in {"UpdateNamespace", "DeletionUpdate"}
                /\ current.exists => current.finalizer
          /\ ns'.anno # ns.anno =>
                /\ pc = "UpdateAnnotation"
                /\ current.exists => current.finalizer
          /\ (cr'.exists /\ cr'.status # cr.status) =>
                pc \in {"FailStatus", "updateSuccessStatus"}
          /\ (pc = "getTargetNamespace" /\ nsl' # nsl /\ ~protectionResult'.ShouldFail) =>
                nsl'.labels = applyLabelsToNamespace(nsl'.labels0,
                                  protectionResult'.AllowedLabels, prevApplied')
          /\ (pc = "getTargetNamespace" /\ protectionResult'.ShouldFail) =>
                nsl'.labels = nsl'.labels0]_vars

\* C34 witness: a pass has made its label update, its annotation write and
\* its status write and has returned
C34_Witness ==
    /\ pc = "done" /\ ret.outcome = "synced"
    /\ current.finalizer
    /\ nsl.labels # nsl.labels0
    /\ ns.labels = nsl.labels
    /\ ns.anno # nsl.anno
    /\ ns.anno = Marshal(protectionResult.AllowedLabels)
    /\ report.called /\ cr.exists /\ cr.status.applied

\* C35: optimistic concurrency on the namespace. When a third party wrote
\* the namespace after the pass fetched it, the pass's label update changes
\* nothing on the namespace and the pass returns an error at once, with no
\* annotation write and no status write: the third party's labels, also one
\* on a protected key, stay as written.
C35_VersionConflict ==
    [][(PassStep /\ pc = "UpdateNamespace" /\ nsl.stale) =>
          /\ ns' = ns
          /\ cr' = cr
          /\ pc' = "done"
          /\ ret'.err /\ ret'.outcome = "error"
          /\ report' = report /\ ~report.called]_vars

\* C35 witness: a third party set a protected key after the fetch, no call
\* failed for another reason, the pass has returned the conflict and the
\* third party's value is on the namespace
C35_Witness ==
    /\ pc = "done" /\ ret.err
    /\ faults = MaxFaults
    /\ nsl.stale
    /\ nsl.labels # nsl.labels0
    /\ ~report.called
    /\ \E key \in DOMAIN ns.labels :
          /\ isLabelProtected(key, current.spec.patterns)
          /\ Differs(key, ns.labels, nsl.labels0)
          /\ Differs(key, ns.labels, nsl.labels)

\* C36: a fail-mode conflict leaves the ownership annotation alone. From
\* the evaluation that found the conflict on, no step of the pass changes
\* the namespace, and the pass ends after its status write without an
\* annotation write: the annotation is the one the pass fetched.
C36_ConflictKeepsRecord ==
    [][(PassStep /\ pc # "done"
          /\ (protectionResult.ShouldFail \/ protectionResult'.ShouldFail)) =>
          /\ ns' = ns
          /\ pc' = IF pc = "FailStatus" THEN "done" ELSE "FailStatus"]_vars

\* C36 witness: a pass ended in a conflict on a namespace that carries the
\* record of an earlier successful pass
C36_Witness ==
    /\ pc = "done" /\ ret.outcome = "conflict"
    /\ protectionResult.ShouldFail
    /\ ns.anno.kind = "json" /\ ns.anno.pairs # <<>>
    /\ ns.anno = nsl.anno

(***************************************************************************)
(* mergeDesiredLabels on its own: any list of objects of one namespace     *)
(***************************************************************************)
\* number of objects in the list
MaxOwners == 3

\* an object of the list: its name and its spec.labels
OwnerItems == [name : OwnerNames, labels : LabelMaps]
\* the lists of objects of one namespace: no two have the same name
OwnerLists ==
    UNION {{l \in [1..n -> OwnerItems] :
               \A i, j \in 1..n : i # j => l[i].name # l[j].name} : n \in 0..MaxOwners}

InitOwners ==
    /\ \E l \in OwnerLists : merged = [NoMerge EXCEPT !.items = l]
    /\ cr = NoCR
    /\ ns = NoNamespace
    /\ pc = "idle"
    /\ current = NoCurrent
    /\ nsl = NoNS
    /\ prevApplied = EmptyMap
    /\ protectionResult = EmptyResult
    /\ freshNS = NoFresh
    /\ ret = NoRet
    /\ report = NoReport
    /\ edits = 0
    /\ writes = 0
    /\ faults = 0
    /\ clean = FALSE
    /\ prevClean = FALSE
    /\ admission = NoAdmission

\* one call of mergeDesiredLabels
MergeOwners ==
    /\ ~merged.called
    /\ merged' = [called |-> TRUE, items |-> merged.items,
                  desired |-> mergeDesiredLabels(merged.items).desired,
                  perKeyWinner |-> mergeDesiredLabels(merged.items).perKeyWinner]
    /\ UNCHANGED <<cr, ns, pc, current, nsl, prevApplied, protectionResult, freshNS,
                   ret, report, edits, writes, faults, clean, prevClean, admission>>

NextOwners == MergeOwners

SpecOwners == InitOwners /\ [][NextOwners]_vars

\* the objects of the list that set the key
Setters(items, key) == {i \in 1..Len(items) : key \in DOMAIN items[i].labels}
\* the one of them with the smallest name
FirstSetter(items, key) ==
    CHOOSE i \in Setters(items, key) :
        \A j \in Setters(items, key) \ {i} : NameLess(items[i].name, items[j].name)
\* the list in another order
Reordered(items, perm) == [i \in 1..Len(items) |-> items[perm[i]]]
ListOrders(n) == {f \in [1..n -> 1..n] : \A i, j \in 1..n : i # j => f[i] # f[j]}

\* C37: multi-owner merge tie-break. The merged map has exactly the keys
\* some object of the list sets; each has the value of the object with the
\* smallest name among those that set it, and that object's name is the
\* key's winner; the list in any other order gives the same two maps.
C37_MergeTieBreak ==
    merged.called =>
        /\ DOMAIN merged.desired = {k \in Keys : Setters(merged.items, k) # {}}
        /\ DOMAIN merged.perKeyWinner = DOMAIN merged.desired
        /\ \A k \in DOMAIN merged.desired :
              LET w == merged.items[FirstSetter(merged.items, k)]
              IN /\ merged.desired[k] = w.labels[k]
                 /\ merged.perKeyWinner[k] = w.name
        /\ \A perm \in ListOrders(Len(merged.items)) :
              LET other == mergeDesiredLabels(Reordered(merged.items, perm))
              IN /\ other.desired = merged.desired
                 /\ other.perKeyWinner = merged.perKeyWinner

\* C37 witness: two objects given with the larger name first set the same
\* key to different values, and the value of the smaller name is merged
C37_Witness ==
    /\ merged.called
    /\ Len(merged.items) >= 2
    /\ NameLess(merged.items[2].name, merged.items[1].name)
    /\ \E k \in DOMAIN merged.items[1].labels \cap DOMAIN merged.items[2].labels :
          /\ merged.items[1].labels[k] # merged.items[2].labels[k]
          /\ merged.desired[k] = merged.items[2].labels[k]
          /\ merged.perKeyWinner[k] = merged.items[2].name

(***************************************************************************)
(* Pattern matcher                                                         *)
(***************************************************************************)
\* the key matches a pattern of the list that is not empty and well formed
ValidMatch(labelKey, protectionPatterns) ==
    \E i \in 1..Len(protectionPatterns) :
        /\ protectionPatterns[i] # <<>>
        /\ ~BadPattern(protectionPatterns[i])
        /\ GlobMatch(protectionPatterns[i], labelKey)

\* C38: pattern matcher robustness. A key is reported protected exactly
\* when it matches a non-empty, well-formed pattern of the list, wherever
\* empty or malformed patterns stand in the list; the skip-mode evaluation
\* skips a desired key whose existing value differs exactly in that case,
\* so an empty list and a list of empty and malformed patterns protect
\* nothing.
C38_MatcherRobust ==
    pc = "done" =>
        /\ \A key \in Keys :
              isLabelProtected(key, current.spec.patterns)
                  <=> ValidMatch(key, current.spec.patterns)
        /\ current.spec.mode = "skip" =>
              \A key \in DOMAIN current.spec.labels :
                  (key \in DOMAIN ns.labels /\ ns.labels[key] # current.spec.labels[key]) =>
                      (key \in Range(protectionResult.ProtectedSkipped)
                          <=> ValidMatch(key, current.spec.patterns))

\* C38 witness: a malformed pattern stands before the pattern of the
\* protected prefix, and the skip-mode evaluation has skipped the key
C38_Witness ==
    /\ pc = "done"
    /\ current.spec.mode = "skip"
    /\ current.spec.patterns = <<PatBad, PatK8s>>
    /\ KeyK8s \in Range(protectionResult.ProtectedSkipped)
    /\ KeyEnv \in DOMAIN protectionResult.AllowedLabels

====
